---- MODULE Spec2Model ----
(***************************************************************************)
(* A model of the scraper's extraction-and-normalization code:             *)
(*   src/src/processor.py           ContentProcessor                        *)
(*   src/src/confluence_scraper.py  RobustCrawler                           *)
(*                                                                         *)
(* Python strings are sequences of one-character strings; a line break is  *)
(* the character "\n".  Python's None and a missing dictionary key are the *)
(* value None, which is no string.                                         *)
(***************************************************************************)
EXTENDS Naturals, Integers, Sequences, FiniteSets, TLC

VARIABLES op, arg, ret, result, doc, body, branch, converter, crawler, call

vars == <<op, arg, ret, result, doc, body, branch, converter, crawler, call>>

(***************************************************************************)
(* Strings                                                                 *)
(***************************************************************************)

\* The characters of a string literal, as a sequence.
Chars(str) == [i \in 1..Len(str) |-> SubSeq(str, i, i)]

NL == "\n"

None == <<"None">>

\* Python truthiness of an optional string: None and "" are falsy.
Truthy(v) == v # None /\ v # <<>>

Whitespace == {" ", "\t", "\n"}

\* s.startswith(p)
StartsWith(s, p) == Len(s) >= Len(p) /\ SubSeq(s, 1, Len(p)) = p

\* s.endswith(p)
EndsWith(s, p) == Len(s) >= Len(p) /\ SubSeq(s, Len(s) - Len(p) + 1, Len(s)) = p

\* sub in s
Contains(s, sub) == \E i \in 1..(Len(s) - Len(sub) + 1) : SubSeq(s, i, i + Len(sub) - 1) = sub

\* The least element of a non-empty set of numbers.
Min(S) == CHOOSE x \in S : \A y \in S : x <= y

\* The index of the first occurrence of character c in s at or after i, or 0.
FindChar(s, c, i) ==
    LET ks == {k \in i..Len(s) : s[k] = c} IN
    IF ks = {} THEN 0 ELSE Min(ks)

\* s.split(c): the pieces of s between the occurrences of c (never empty).
RECURSIVE Split(_, _)
Split(s, c) ==
    LET k == FindChar(s, c, 1) IN
    IF k = 0 THEN <<s>>
    ELSE <<SubSeq(s, 1, k - 1)>> \o Split(SubSeq(s, k + 1, Len(s)), c)

\* sep.join(parts)
RECURSIVE Join(_, _)
Join(parts, sep) ==
    IF Len(parts) = 0 THEN <<>>
    ELSE IF Len(parts) = 1 THEN parts[1]
    ELSE parts[1] \o sep \o Join(Tail(parts), sep)

\* s.lstrip(chars)
LStrip(s, chars) ==
    LET ks == {k \in 1..Len(s) : s[k] \notin chars} IN
    IF ks = {} THEN <<>> ELSE SubSeq(s, Min(ks), Len(s))

\* s.rstrip(chars)
RStrip(s, chars) ==
    LET ks == {k \in 1..Len(s) : s[k] \notin chars} IN
    IF ks = {} THEN <<>> ELSE SubSeq(s, 1, CHOOSE x \in ks : \A y \in ks : x >= y)

\* s.strip(chars)
Strip(s, chars) == LStrip(RStrip(s, chars), chars)

\* Every sequence over S of length lo..hi.
SeqsOf(S, lo, hi) == UNION {[1..n -> S] : n \in lo..hi}

(***************************************************************************)
(* ContentProcessor._fix_heading_levels                                    *)
(***************************************************************************)

\* The number of leading "#" characters of a line (the loop of lines 326-331).
RECURSIVE HeadingLevel(_)
HeadingLevel(line) ==
    IF Len(line) > 0 /\ line[1] = "#" THEN 1 + HeadingLevel(Tail(line)) ELSE 0

\* FixHeadingLine with the test of line 334 comparing with 2 instead of 1.
FixHeadingLineLevelTwo(line, title_done) ==
    IF ~title_done /\ StartsWith(line, <<"#", " ">>) THEN <<line, TRUE>>
    ELSE IF StartsWith(line, <<"#">>) /\ HeadingLevel(line) = 2
         THEN <<(<<"#">> \o line), title_done>>
    ELSE <<line, title_done>>

\* The loop body of lines 318-335 for one line, given title_done:
\* the pair <<new line, new title_done>>.
FixHeadingLine(line, title_done) ==
    IF ~title_done /\ StartsWith(line, <<"#", " ">>) THEN <<line, TRUE>>
    ELSE IF StartsWith(line, <<"#">>) /\ HeadingLevel(line) = 1
         THEN <<(<<"#">> \o line), title_done>>
    ELSE <<line, title_done>>

\* The loop of lines 318-335 over the lines from index i on.
RECURSIVE FixHeadingLoop(_, _, _)
FixHeadingLoop(lines, i, title_done) ==
    IF i > Len(lines) THEN <<>>
    ELSE LET r == FixHeadingLine(lines[i], title_done) IN
         <<r[1]>> \o FixHeadingLoop(lines, i + 1, r[2])

FixHeadingLevels(content) ==
    Join(FixHeadingLoop(Split(content, NL), 1, FALSE), <<NL>>)

(***************************************************************************)
(* ContentProcessor._improve_tables                                        *)
(***************************************************************************)

\* A line that matches \|[^\n]+\| of table_pattern (line 267).
IsTableRow(line) ==
    Len(line) >= 3 /\ line[1] = "|" /\ line[Len(line)] = "|"

\* A line that matches \|[-:| ]+\| of table_pattern (line 267).
IsSeparatorRow(line) ==
    /\ IsTableRow(line)
    /\ \A i \in 2..(Len(line) - 1) : line[i] \in {"-", ":", "|", " "}

\* table_pattern matches at the line break before lines[j]: a row, a
\* separator row and at least one more row, each followed by a line break.
TableAt(lines, j) ==
    /\ j + 2 < Len(lines)
    /\ IsTableRow(lines[j])
    /\ IsSeparatorRow(lines[j + 1])
    /\ IsTableRow(lines[j + 2])

\* The last row of the (greedy) match that starts at lines[j].
RECURSIVE TableEnd(_, _)
TableEnd(lines, k) ==
    IF k + 1 < Len(lines) /\ IsTableRow(lines[k + 1]) THEN TableEnd(lines, k + 1) ELSE k

\* [cell.strip() for cell in ...] (line 286)
RECURSIVE StripCells(_)
StripCells(cells) ==
    IF Len(cells) = 0 THEN <<>>
    ELSE <<Strip(cells[1], Whitespace)>> \o StripCells(Tail(cells))

\* The test of line 280: the line is taken for the separator line.
SkippedAsSeparator(line) ==
    /\ StartsWith(line, <<"|">>)
    /\ LET inner == Strip(line, {"|"}) IN
       \A i \in 1..Len(inner) : inner[i] \in {"|", "-", ":"}

\* format_table's loop body for one line of the match (lines 279-290).
FormatTableLine(line) ==
    IF SkippedAsSeparator(line) THEN line
    ELSE IF StartsWith(line, <<"|">>) /\ EndsWith(line, <<"|">>)
         THEN <<"|", " ">>
              \o Join(StripCells(Split(Strip(line, {"|"}), "|")), <<" ", "|", " ">>)
              \o <<" ", "|">>
    ELSE line

RECURSIVE FormatTableLines(_)
FormatTableLines(lines) ==
    IF Len(lines) = 0 THEN <<>>
    ELSE <<FormatTableLine(lines[1])>> \o FormatTableLines(Tail(lines))

\* format_table (lines 269-292) on the match made of lines[j..k]: the match
\* begins with the line break before lines[j], which the result drops.
FormatTable(lines, j, k) ==
    Join(FormatTableLines(SubSeq(lines, j, k)), <<NL>>) \o <<NL>>

\* re.sub(table_pattern, format_table, '\n' + content) (line 295), from the
\* line break before lines[j] on.  A match eats the line break that follows
\* its last row, so the next line is copied without one.
RECURSIVE SubTables(_, _)
SubTables(lines, j) ==
    IF j > Len(lines) THEN <<>>
    ELSE IF TableAt(lines, j)
         THEN LET k == TableEnd(lines, j + 2) IN
              FormatTable(lines, j, k) \o lines[k + 1] \o SubTables(lines, k + 2)
    ELSE <<NL>> \o lines[j] \o SubTables(lines, j + 1)

ImproveTables(content) ==
    IF ~Contains(content, <<"|">>) \/ ~Contains(content, <<NL, "|">>) THEN content
    ELSE LStrip(SubTables(Split(content, NL), 1), {NL})

(***************************************************************************)
(* ContentProcessor._fix_links                                             *)
(***************************************************************************)

NoLineBreak(s, a, b) == \A i \in a..b : s[i] # NL

\* link_pattern (line 367) matches at p with "]" at j and the closing ")" at k.
LinkMatch(s, p, j, k) ==
    /\ s[p] = "["
    /\ p < j /\ j + 1 < k /\ k < Len(s)
    /\ s[j] = "]" /\ s[j + 1] = "("
    /\ NoLineBreak(s, p + 1, j - 1)
    /\ s[k] = ")"
    /\ NoLineBreak(s, j + 2, k - 1)
    /\ s[k + 1] \notin (Whitespace \cup {")"})

\* The match the regex engine finds at p: both groups are lazy, so the
\* first "]" that admits a match and then the first ")" for it; <<0, 0>> if none.
LinkAt(s, p) ==
    LET js == IF s[p] # "[" THEN {}
              ELSE {j \in (p + 1)..Len(s) :
                      s[j] = "]" /\ \E k \in (j + 2)..Len(s) : LinkMatch(s, p, j, k)}
    IN
    IF js = {} THEN <<0, 0>>
    ELSE LET j == Min(js) IN
         <<j, Min({k \in (j + 2)..Len(s) : LinkMatch(s, p, j, k)})>>

\* The replacement template of line 368, r'[\1](\2)\3', expanded for a match.
LinkTemplate(s, p, j, k) ==
    <<"[">> \o SubSeq(s, p + 1, j - 1) \o <<"]", "(">> \o SubSeq(s, j + 2, k - 1)
    \o <<")">> \o <<s[k + 1]>>

\* re.sub(link_pattern, template, content) from position p on (line 368):
\* the text up to the leftmost match is copied, the match is replaced by the
\* expanded template, and the scan goes on after the match.
RECURSIVE SubLinks(_, _)
SubLinks(s, p) ==
    LET starts == {q \in p..Len(s) : LinkAt(s, q)[1] # 0} IN
    IF starts = {} THEN SubSeq(s, p, Len(s))
    ELSE LET q == Min(starts)
             m == LinkAt(s, q)
         IN  SubSeq(s, p, q - 1) \o LinkTemplate(s, q, m[1], m[2]) \o SubLinks(s, m[2] + 2)

FixLinks(content) == SubLinks(content, 1)

\* _process_images (lines 339-352) returns its argument.
ProcessImages(content) == content

(***************************************************************************)
(* HTML conversion and title extraction (html2text, BeautifulSoup)         *)
(***************************************************************************)

\* The index of the first occurrence of sub in s at or after i, or 0.
IndexOf(s, sub, i) ==
    LET ks == {k \in i..(Len(s) - Len(sub) + 1) : SubSeq(s, k, k + Len(sub) - 1) = sub} IN
    IF ks = {} THEN 0 ELSE Min(ks)

\* The text nodes of an HTML string: what lies between its tags <...>.
RECURSIVE TextNodes(_)
TextNodes(html) ==
    LET a == FindChar(html, "<", 1)
        b == IF a = 0 THEN 0 ELSE FindChar(html, ">", a)
    IN  IF a = 0 \/ b = 0 THEN <<html>>
        ELSE <<SubSeq(html, 1, a - 1)>> \o TextNodes(SubSeq(html, b + 1, Len(html)))

\* The text nodes stripped, the empty ones dropped.
RECURSIVE StrippedNodes(_)
StrippedNodes(nodes) ==
    IF Len(nodes) = 0 THEN <<>>
    ELSE LET t == Strip(nodes[1], Whitespace) IN
         (IF t = <<>> THEN <<>> ELSE <<t>>) \o StrippedNodes(Tail(nodes))

\* soup.get_text(separator='\n\n', strip=True) (line 155)
SoupGetText(html) == Join(StrippedNodes(TextNodes(html)), <<NL, NL>>)

\* html2text's HTML2Text.handle (lines 140-145) for markup made of paragraphs:
\* the text of each paragraph followed by a blank line; its output always
\* ends with a line break.
Html2Text(html) ==
    LET t == SoupGetText(html) IN
    IF t = <<>> THEN <<NL>> ELSE t \o <<NL, NL>>

\* _html_to_markdown (lines 125-164), given which converters are installed.
HtmlToMarkdown(html, conv) ==
    IF conv.html2text THEN Html2Text(html)
    ELSE IF conv.bs4 THEN SoupGetText(html)
    ELSE html

\* The test of line 121: the content looks like HTML.
LooksLikeHtml(content) ==
    /\ Contains(content, <<"<">>)
    /\ Contains(content, <<">">>)
    /\ \/ Contains(content, Chars("<p>"))
       \/ Contains(content, Chars("<div>"))
       \/ Contains(content, Chars("<a"))

\* _convert_to_markdown (lines 110-123)
ConvertToMarkdown(content, conv) ==
    IF LooksLikeHtml(content) THEN HtmlToMarkdown(content, conv) ELSE content

\* The string between the first open and the next close after it; None when
\* the element is missing.
ElementString(html, open, close) ==
    LET a == IndexOf(html, open, 1)
        b == IF a = 0 THEN 0 ELSE IndexOf(html, close, a + Len(open))
    IN  IF a = 0 \/ b = 0 THEN None
        ELSE SubSeq(html, a + Len(open), b - 1)

\* The first of the two elements that occurs in html (find_all([..], limit=1)).
FirstOfTwo(html, tagA, tagB) ==
    LET a == IndexOf(html, Chars("<" \o tagA \o ">"), 1)
        b == IndexOf(html, Chars("<" \o tagB \o ">"), 1)
        pick == IF a = 0 THEN tagB ELSE IF b = 0 THEN tagA ELSE IF a < b THEN tagA ELSE tagB
    IN  ElementString(html, Chars("<" \o pick \o ">"), Chars("</" \o pick \o ">"))

\* extract_title_from_html (lines 82-108).  Without BeautifulSoup the import
\* raises, the exception is caught and "" is returned.  The first method
\* whose element has a non-empty string returns that string stripped.
ExtractTitleFromHtml(html, conv) ==
    LET title == ElementString(html, Chars("<title>"), Chars("</title>"))
        og    == ElementString(html, Chars("<meta property=\"og:title\" content=\""), Chars("\""))
        h1    == ElementString(html, Chars("<h1>"), Chars("</h1>"))
        h23   == FirstOfTwo(html, "h2", "h3")
    IN  IF ~conv.bs4 THEN <<>>
        ELSE IF Truthy(title) THEN Strip(title, Whitespace)
        ELSE IF Truthy(og) THEN Strip(og, Whitespace)
        ELSE IF Truthy(h1) THEN Strip(h1, Whitespace)
        ELSE IF Truthy(h23) THEN Strip(h23, Whitespace)
        ELSE <<>>

(***************************************************************************)
(* urllib.parse.urlparse                                                   *)
(***************************************************************************)

\* The first index at or after i of a character of s that is in cs, or
\* Len(s) + 1.
FindAny(s, cs, i) ==
    LET ks == {k \in i..Len(s) : s[k] \in cs} IN
    IF ks = {} THEN Len(s) + 1 ELSE Min(ks)

\* urlparse(url): scheme://netloc/path?query#fragment split into its parts.
UrlParse(url) ==
    LET c    == IndexOf(url, Chars("://"), 1)
        rest == IF c = 0 THEN url ELSE SubSeq(url, c + 3, Len(url))
        n    == IF c = 0 THEN 1 ELSE FindAny(rest, {"/", "?", "#"}, 1)
        q    == FindAny(rest, {"?", "#"}, n)
        f    == FindAny(rest, {"#"}, q)
    IN  [scheme   |-> IF c = 0 THEN <<>> ELSE SubSeq(url, 1, c - 1),
         netloc   |-> SubSeq(rest, 1, n - 1),
         path     |-> SubSeq(rest, n, q - 1),
         query    |-> IF q <= Len(rest) /\ rest[q] = "?" THEN SubSeq(rest, q + 1, f - 1) ELSE <<>>,
         fragment |-> SubSeq(rest, f + 1, Len(rest))]

(***************************************************************************)
(* ContentProcessor._extract_title                                         *)
(***************************************************************************)

LowerAlpha == Chars("abcdefghijklmnopqrstuvwxyz")

UpperAlpha == Chars("ABCDEFGHIJKLMNOPQRSTUVWXYZ")

Upper(c) == IF \E i \in 1..26 : LowerAlpha[i] = c
            THEN UpperAlpha[CHOOSE i \in 1..26 : LowerAlpha[i] = c] ELSE c

Lower(c) == IF \E i \in 1..26 : UpperAlpha[i] = c
            THEN LowerAlpha[CHOOSE i \in 1..26 : UpperAlpha[i] = c] ELSE c

\* word.capitalize()
Capitalize(word) ==
    [i \in 1..Len(word) |-> IF i = 1 THEN Upper(word[i]) ELSE Lower(word[i])]

\* [p for p in parts if p] (line 230)
RECURSIVE NonEmpty(_)
NonEmpty(parts) ==
    IF Len(parts) = 0 THEN <<>>
    ELSE (IF parts[1] = <<>> THEN <<>> ELSE <<parts[1]>>) \o NonEmpty(Tail(parts))

\* s.replace('-', ' ').replace('_', ' ') (line 236)
HyphensToSpaces(s) == [i \in 1..Len(s) |-> IF s[i] \in {"-", "_"} THEN " " ELSE s[i]]

RECURSIVE CapitalizeAll(_)
CapitalizeAll(words) ==
    IF Len(words) = 0 THEN <<>>
    ELSE <<Capitalize(words[1])>> \o CapitalizeAll(Tail(words))

\* The URL part of _extract_title (lines 227-247).
TitleFromUrl(url) ==
    LET parsed_url   == UrlParse(url)
        path_parts   == NonEmpty(Split(parsed_url.path, "/"))
        last_segment == IF Len(path_parts) = 0 THEN <<>>
                        ELSE HyphensToSpaces(path_parts[Len(path_parts)])
    IN  IF Len(path_parts) > 0 /\ Strip(last_segment, Whitespace) # <<>>
        THEN Join(CapitalizeAll(NonEmpty(Split(last_segment, " "))), <<" ">>)
        ELSE IF Len(path_parts) = 0
                \/ (Len(path_parts) = 1
                    /\ path_parts[1] \in {Chars("index.html"), Chars("index.php")})
        THEN Chars("Home - ") \o parsed_url.netloc
        ELSE Chars("Documentation from ") \o parsed_url.netloc

\* result.get(key, '') for a key that may be missing
GetOr(v, default) == IF v = None THEN default ELSE v

\* _extract_title (lines 207-247)
ExtractTitle(res, conv) ==
    IF Truthy(res.title) THEN res.title
    ELSE IF Truthy(res.html) /\ ExtractTitleFromHtml(res.html, conv) # <<>>
         THEN ExtractTitleFromHtml(res.html, conv)
    ELSE TitleFromUrl(GetOr(res.url, <<>>))

(***************************************************************************)
(* ContentProcessor._post_process_markdown and process                     *)
(***************************************************************************)

\* HeaderBlock with the test of line 186 dropped: the Crawled line is always
\* written.
HeaderBlockAlwaysCrawled(title, url, timestamp) ==
    Chars("# ") \o title \o <<NL, NL>>
    \o Chars("_Source: ") \o url \o Chars("_  ") \o <<NL>>
    \o Chars("_Crawled: ") \o timestamp \o Chars("_  ") \o <<NL>>
    \o <<NL>> \o Chars("---") \o <<NL, NL>>

\* header + metadata of lines 184-188
HeaderBlock(title, url, timestamp) ==
    Chars("# ") \o title \o <<NL, NL>>
    \o Chars("_Source: ") \o url \o Chars("_  ") \o <<NL>>
    \o (IF Truthy(timestamp)
        THEN Chars("_Crawled: ") \o timestamp \o Chars("_  ") \o <<NL>> ELSE <<>>)
    \o <<NL>> \o Chars("---") \o <<NL, NL>>

\* _post_process_markdown (lines 166-205)
PostProcessMarkdown(markdown, res, conv) ==
    LET title     == ExtractTitle(res, conv)
        url       == GetOr(res.url, <<>>)
        timestamp == GetOr(res.timestamp, <<>>)
        processed == HeaderBlock(title, url, timestamp) \o markdown
    IN  FixLinks(ProcessImages(FixHeadingLevels(ImproveTables(processed))))

\* ErrorMarker taken to be the string process returns on exhaustion.
ErrorMarkerUnprefixed == Chars("No content could be extracted.")

\* The literal of line 48 (the same literal as src/src/crawler.py line 136).
ErrorMarker == Chars("Error: No content could be extracted.")

\* The literal of line 61.
NoContent == Chars("No content could be extracted.")

\* SelectBranch with the text test moved before the two content tests.
SelectBranchTextFirst(res) ==
    IF Truthy(res.markdown) THEN "markdown"
    ELSE IF Truthy(res.text) THEN "text"
    ELSE IF res.extraction_method = Chars("enhanced") /\ Truthy(res.content) THEN "enhanced"
    ELSE IF Truthy(res.content) /\ res.content # ErrorMarker THEN "content"
    ELSE IF Truthy(res.html) THEN "html"
    ELSE "none"

\* Which branch of the chain of lines 42-56 is taken.
SelectBranch(res) ==
    IF Truthy(res.markdown) THEN "markdown"
    ELSE IF res.extraction_method = Chars("enhanced") /\ Truthy(res.content) THEN "enhanced"
    ELSE IF Truthy(res.content) /\ res.content # ErrorMarker THEN "content"
    ELSE IF Truthy(res.text) THEN "text"
    ELSE IF Truthy(res.html) THEN "html"
    ELSE "none"

\* SelectContent going on to text and then html when the conversion of the
\* picked content gives the empty string.
SelectContentFallsThrough(res, conv) ==
    LET b == SelectBranch(res) IN
    IF b \in {"enhanced", "content"} /\ ConvertToMarkdown(res.content, conv) # <<>>
    THEN ConvertToMarkdown(res.content, conv)
    ELSE IF b = "markdown" THEN res.markdown
    ELSE IF Truthy(res.text) THEN res.text
    ELSE IF Truthy(res.html) THEN HtmlToMarkdown(res.html, conv)
    ELSE None

\* markdown_content after the chain of lines 42-56 (None if no branch ran).
SelectContent(res, conv) ==
    LET b == SelectBranch(res) IN
    CASE b = "markdown" -> res.markdown
      [] b = "enhanced" -> ConvertToMarkdown(res.content, conv)
      [] b = "content"  -> ConvertToMarkdown(res.content, conv)
      [] b = "text"     -> res.text
      [] b = "html"     -> HtmlToMarkdown(res.html, conv)
      [] OTHER          -> None

\* ProcessBody with the test of line 59 replaced by "is None".
ProcessBodyNoneOnly(res, conv) ==
    IF SelectContent(res, conv) = None THEN NoContent ELSE SelectContent(res, conv)

\* markdown_content after lines 59-61.
ProcessBody(res, conv) ==
    IF ~Truthy(SelectContent(res, conv)) THEN NoContent ELSE SelectContent(res, conv)

\* TitleFilled with the test of line 64 not looking at the title: the title
\* found in the markup replaces the one the result came with.
TitleFilledAlways(res, conv) ==
    IF Truthy(res.html)
    THEN [res EXCEPT !.title = ExtractTitleFromHtml(res.html, conv)]
    ELSE res

\* The result dictionary after lines 64-65.
TitleFilled(res, conv) ==
    IF ~Truthy(res.title) /\ Truthy(res.html)
    THEN [res EXCEPT !.title = ExtractTitleFromHtml(res.html, conv)]
    ELSE res

(***************************************************************************)
(* urllib.parse.parse_qs                                                   *)
(***************************************************************************)

\* The printable ASCII characters, code 32 first (code 96, the grave accent,
\* has no string literal here and is written "?").
Ascii == Chars(" !\"#$%&'()*+,-./0123456789:;<=>?@ABCDEFGHIJKLMNOPQRSTUVWXYZ[\\]^_?abcdefghijklmnopqrstuvwxyz{|}~")

HexDigits == Chars("0123456789abcdef")

IsHex(c) == \E i \in 1..16 : HexDigits[i] = Lower(c)

HexVal(c) == (CHOOSE i \in 1..16 : HexDigits[i] = Lower(c)) - 1

\* The character a %XX escape stands for ("?" outside printable ASCII).
Unescape(h1, h2) ==
    LET code == 16 * HexVal(h1) + HexVal(h2) IN
    IF code >= 32 /\ code <= 126 THEN Ascii[code - 31] ELSE "?"

\* unquote(s): every well-formed %XX escape replaced by its character.
RECURSIVE Unquote(_)
Unquote(s) ==
    IF Len(s) = 0 THEN <<>>
    ELSE IF s[1] = "%" /\ Len(s) >= 3 /\ IsHex(s[2]) /\ IsHex(s[3])
         THEN <<Unescape(s[2], s[3])>> \o Unquote(SubSeq(s, 4, Len(s)))
    ELSE <<s[1]>> \o Unquote(Tail(s))

\* s.replace('+', ' ')
PlusToSpace(s) == [i \in 1..Len(s) |-> IF s[i] = "+" THEN " " ELSE s[i]]

\* parse_qsl over the name=value pieces: the decoded <<name, value>> pairs,
\* a piece without "=" or with an empty value dropped (keep_blank_values is
\* False).
RECURSIVE ParseQsl(_)
ParseQsl(pieces) ==
    IF Len(pieces) = 0 THEN <<>>
    ELSE LET nv == pieces[1]
             e  == FindChar(nv, "=", 1)
         IN  (IF e = 0 \/ e = Len(nv) THEN <<>>
              ELSE << <<Unquote(PlusToSpace(SubSeq(nv, 1, e - 1))),
                        Unquote(PlusToSpace(SubSeq(nv, e + 1, Len(nv))))>> >>)
             \o ParseQsl(Tail(pieces))

\* parse_qs(query).get(name, [None])[0]: the first value kept for name.
RECURSIVE FirstValue(_, _)
FirstValue(pairs, name) ==
    IF Len(pairs) = 0 THEN None
    ELSE IF pairs[1][1] = name THEN pairs[1][2]
    ELSE FirstValue(Tail(pairs), name)

QueryParam(query, name) == FirstValue(ParseQsl(Split(query, "&")), name)

(***************************************************************************)
(* RobustCrawler._extract_page_id                                          *)
(***************************************************************************)

Digits == {"0", "1", "2", "3", "4", "5", "6", "7", "8", "9"}

\* s.isdigit()
IsDigit(s) == Len(s) > 0 /\ \A i \in 1..Len(s) : s[i] \in Digits

\* x in parts
InParts(parts, x) == \E i \in 1..Len(parts) : parts[i] = x

\* parts.index(x), 1-based
IndexIn(parts, x) == CHOOSE i \in 1..Len(parts) : parts[i] = x /\ \A j \in 1..(i - 1) : parts[j] # x

\* PagesSegment looking at every "pages" segment of the path, not at the
\* first one only.
PagesSegmentAnyOccurrence(path_parts) ==
    LET found == {i \in 1..(Len(path_parts) - 1) :
                     path_parts[i] = Chars("pages") /\ IsDigit(path_parts[i + 1])}
    IN  IF found # {} THEN path_parts[Min(found) + 1] ELSE None

\* The recognizer of lines 118-125: the page id, or None.
PagesSegment(path_parts) ==
    IF InParts(path_parts, Chars("pages"))
       /\ IndexIn(path_parts, Chars("pages")) < Len(path_parts)
       /\ IsDigit(path_parts[IndexIn(path_parts, Chars("pages")) + 1])
    THEN path_parts[IndexIn(path_parts, Chars("pages")) + 1]
    ELSE None

\* The recognizer of lines 132-138: the page id, or None.
ShortLink(path_parts) ==
    IF InParts(path_parts, Chars("l")) /\ InParts(path_parts, Chars("cp"))
       /\ IndexIn(path_parts, Chars("cp")) < Len(path_parts)
    THEN path_parts[IndexIn(path_parts, Chars("cp")) + 1]
    ELSE None

\* ExtractPageId with the path recognizers tried before the query parameter.
ExtractPageIdPathFirst(url) ==
    LET parsed_url == UrlParse(url)
        page_id    == QueryParam(parsed_url.query, Chars("pageId"))
        path_parts == Split(parsed_url.path, "/")
    IN  IF PagesSegment(path_parts) # None THEN PagesSegment(path_parts)
        ELSE IF ShortLink(path_parts) # None THEN ShortLink(path_parts)
        ELSE IF Truthy(page_id) THEN page_id
        ELSE None

\* _extract_page_id (lines 96-141)
ExtractPageId(url) ==
    LET parsed_url == UrlParse(url)
        page_id    == QueryParam(parsed_url.query, Chars("pageId"))
        path_parts == Split(parsed_url.path, "/")
    IN  IF Truthy(page_id) THEN page_id
        ELSE IF PagesSegment(path_parts) # None THEN PagesSegment(path_parts)
        ELSE ShortLink(path_parts)

(***************************************************************************)
(* Inputs                                                                  *)
(***************************************************************************)

\* The concatenation of a sequence of strings.
Concat(parts) == Join(parts, <<>>)

\* Values of the markdown field: missing, empty, headings of several
\* levels, a table after a text line, a link followed by a letter.
MarkdownPool ==
    {None, <<>>,
     Chars("# A\n#b\n## C\n#"),
     Chars("t\n|a|b|\n|-|-|\n|c|d|\n# E"),
     Chars("see [X](u)Y")}

\* Values of the content field: missing, empty, plain text, markup, markup
\* without text, and the two failure literals.
ContentPool ==
    {None, <<>>,
     Chars("plain"),
     Chars("<p>hi</p>"),
     Chars("<p> </p>"),
     Chars("Error: No content could be extracted."),
     Chars("No content could be extracted.")}

TextPool == {None, <<>>, Chars("# T\ntext")}

HtmlPool ==
    {None, <<>>,
     Chars("<title>Doc</title><h1>x</h1>"),
     Chars("<h1> </h1><p># y</p>")}

\* Values of the html field that process converts into the body: missing,
\* empty, a paragraph, a paragraph without text.
BodyHtmlPool == {None, <<>>, Chars("<p>hi</p>"), Chars("<p> </p>")}

TitlePool == {None, <<>>, Chars("My Title")}

UrlPool == {None, Chars("https://h.io/get-started")}

TimestampPool == {None, <<>>, Chars("2025-03-05")}

MethodPool == {None, Chars("standard"), Chars("enhanced")}

\* Which of html2text and BeautifulSoup are installed.
Converters == [html2text : BOOLEAN, bs4 : BOOLEAN]

\* The result dictionaries over given pools of field values.
ResultsOver(markdowns, contents, texts, htmls, titles, urls, timestamps, methods) ==
    [markdown : markdowns, content : contents, text : texts, html : htmls,
     title : titles, url : urls, timestamp : timestamps, extraction_method : methods]

\* Every combination of the content-bearing fields and extraction methods.
SelectionResults ==
    ResultsOver(MarkdownPool, ContentPool, TextPool, BodyHtmlPool,
                {None}, {Chars("https://h.io/get-started")}, {None}, MethodPool)

\* Every combination of the fields the document header is made of: over
\* every html value when markdown gives the body (the html is then read for
\* the title only), and over the html values converted into the body when
\* there is no markdown.
DocumentResults ==
    ResultsOver(MarkdownPool \ {None, <<>>}, {None}, {None}, HtmlPool,
                TitlePool, UrlPool, TimestampPool, {None})
    \cup ResultsOver({None, <<>>}, {None}, {None}, {None, Chars("<p>hi</p>")},
                     TitlePool, UrlPool, TimestampPool, {None})

\* The markdown the tests hand to _post_process_markdown directly.
DirectMarkdown ==
    {Chars("## Heading\n\nSome content.\n"),
     Chars("|a|b|\n|-|-|\n|c|d|\n")}

(***************************************************************************)
(* ContentProcessor.process as a state machine                             *)
(***************************************************************************)

Idle == <<>>

\* The state before a call on one of the given result dictionaries.
InitOver(results) ==
    /\ op = "init"
    /\ arg \in results
    /\ result = arg
    /\ converter \in Converters
    /\ ret = Idle /\ doc = Idle /\ body = Idle /\ branch = "init"
    /\ crawler = Idle /\ call = Idle

Init == InitOver(SelectionResults)

\* processor.process(result) (lines 26-70)
Process ==
    /\ op = "init"
    /\ op' = "process"
    /\ branch' = SelectBranch(result)
    /\ body' = ProcessBody(result, converter)
    /\ result' = TitleFilled(result, converter)
    /\ doc' = PostProcessMarkdown(body', result', converter)
    /\ ret' = doc'
    /\ UNCHANGED <<arg, converter, crawler, call>>

Next == Process

Spec == Init /\ [][Next]_vars

\* processor._post_process_markdown(markdown, result), called directly as
\* tests/test_processor.py does.
PostProcess ==
    /\ op = "init"
    /\ op' = "post_process_markdown"
    /\ \E markdown \in DirectMarkdown :
          /\ body' = markdown
          /\ doc' = PostProcessMarkdown(markdown, result, converter)
    /\ ret' = doc'
    /\ branch' = "direct"
    /\ UNCHANGED <<arg, result, converter, crawler, call>>

InitDocument == InitOver(DocumentResults)

NextDocument == Process \/ PostProcess

SpecDocument == InitDocument /\ [][NextDocument]_vars

(***************************************************************************)
(* Properties of content selection (specification Spec)                    *)
(***************************************************************************)

Enhanced(res) == res.extraction_method = Chars("enhanced")

\* C1: process takes the body from the first usable field in the order
\* markdown, content under enhanced extraction, content that is not the
\* failure marker of line 48, text, html (converted); the fields of lower
\* priority have no influence.  A converted field whose conversion is empty
\* gives the "No content" literal.
C1_PriorityOrder ==
    op = "process" =>
      /\ Truthy(arg.markdown) => branch = "markdown" /\ body = arg.markdown
      /\ (~Truthy(arg.markdown) /\ Enhanced(arg) /\ Truthy(arg.content))
            => /\ branch = "enhanced"
               /\ body \in {ConvertToMarkdown(arg.content, converter), NoContent}
      /\ (~Truthy(arg.markdown) /\ ~Enhanced(arg) /\ Truthy(arg.content)
          /\ arg.content # ErrorMarker)
            => /\ branch = "content"
               /\ body \in {ConvertToMarkdown(arg.content, converter), NoContent}
      /\ (~Truthy(arg.markdown) /\ ~(Enhanced(arg) /\ Truthy(arg.content))
          /\ ~(Truthy(arg.content) /\ arg.content # ErrorMarker)
          /\ Truthy(arg.text))
            => branch = "text" /\ body = arg.text
      /\ (~Truthy(arg.markdown) /\ ~(Enhanced(arg) /\ Truthy(arg.content))
          /\ ~(Truthy(arg.content) /\ arg.content # ErrorMarker)
          /\ ~Truthy(arg.text) /\ Truthy(arg.html))
            => /\ branch = "html"
               /\ body \in {HtmlToMarkdown(arg.html, converter), NoContent}

\* A call in which content wins over a populated text and a populated html.
C1_Witness ==
    /\ op = "process"
    /\ ~Truthy(arg.markdown) /\ ~Enhanced(arg)
    /\ arg.content = Chars("plain") /\ Truthy(arg.text) /\ Truthy(arg.html)
    /\ body = Chars("plain")

\* No field of the dictionary is usable.
NothingUsable(res) ==
    /\ ~Truthy(res.markdown) /\ ~Truthy(res.text) /\ ~Truthy(res.html)
    /\ \/ ~Truthy(res.content)
       \/ (res.content = ErrorMarker /\ ~Enhanced(res))

\* C2: the body process chooses is never the empty string (nor None), and
\* it is exactly "No content could be extracted." when no field is usable.
C2_BodyNeverEmpty ==
    op = "process" =>
      /\ body # <<>> /\ body # None
      /\ NothingUsable(arg) => body = NoContent

\* A call on a dictionary without any usable field.
C2_Witness ==
    op = "process" /\ NothingUsable(arg) /\ arg.content = <<>> /\ body = NoContent

(***************************************************************************)
(* Properties of the document (specification SpecDocument)                 *)
(***************************************************************************)

Returned == op \in {"process", "post_process_markdown"}

\* A line that starts with a single "#".
IsLevelOne(line) == StartsWith(line, <<"#">>) /\ HeadingLevel(line) = 1

DocLines == Split(doc, NL)

\* C5: in the returned document exactly one line starts with a single "#":
\* the first line, which is "# " followed by the title.
C5_SingleLevelOneHeading ==
    Returned =>
      /\ DocLines[1] = Chars("# ") \o ExtractTitle(result, converter)
      /\ IsLevelOne(DocLines[1])
      /\ \A i \in 2..Len(DocLines) : ~IsLevelOne(DocLines[i])

\* A document whose content had the level-1 lines "# A", "#b" and "#".
C5_Witness ==
    /\ op = "process"
    /\ body = Chars("# A\n#b\n## C\n#")
    /\ Contains(doc, Chars("\n## A\n##b\n## C\n##"))

\* The lines of the header for a title, a URL and a timestamp.
HeaderLines(title, url, timestamp) ==
    <<Chars("# ") \o title, <<>>, Chars("_Source: ") \o url \o Chars("_  ")>>
    \o (IF Truthy(timestamp) THEN <<Chars("_Crawled: ") \o timestamp \o Chars("_  ")>> ELSE <<>>)
    \o << <<>>, Chars("---") >>

\* Neither a table row nor a line with a single "#": content the passes of
\* lines 194-203 leave as it is.
PlainContent(s) ==
    /\ ~Contains(s, <<"|">>)
    /\ \A i \in 1..Len(Split(s, NL)) : ~IsLevelOne(Split(s, NL)[i])

\* C10: the document starts with the line "# {title}", then the Source
\* line with the URL, then the Crawled line if and only if the timestamp is
\* non-empty, then the rule "---", and only then the content: the header
\* lines are the first lines, no other line before or at the rule is a
\* Crawled line, something follows the rule, and content without level-1
\* lines and table rows follows the header unchanged.
C10_HeaderThenContent ==
    Returned =>
      LET title  == ExtractTitle(result, converter)
          url    == GetOr(result.url, <<>>)
          header == HeaderLines(title, url, result.timestamp)
          n      == Len(header)
      IN  /\ Len(DocLines) > n
          /\ SubSeq(DocLines, 1, n) = header
          /\ (\E i \in 1..n : StartsWith(DocLines[i], Chars("_Crawled: ")))
                <=> Truthy(result.timestamp)
          /\ Join(SubSeq(DocLines, n + 1, Len(DocLines)), <<NL>>) # <<>>
          /\ PlainContent(body) =>
                doc = Join(header, <<NL>>) \o <<NL, NL>> \o body

\* A document with a Crawled line, and one without.
C10_Witness ==
    /\ op = "process"
    /\ result.timestamp = Chars("2025-03-05")
    /\ DocLines[4] = Chars("_Crawled: 2025-03-05_  ")
    /\ DocLines[6] = Chars("---")
    /\ body = Chars("see [X](u)Y")
    /\ DocLines[8] = body


(***************************************************************************)
(* _fix_heading_levels called on its own (specification SpecHeadings)      *)
(***************************************************************************)

\* The longest document, in lines.
MaxHeadingLines == 3

\* Lines of a markdown document: level-1 headings with and without text,
\* a "#" followed directly by text, deeper headings, text, an empty line.
HeadingLinePool ==
    {Chars("# T"), Chars("# S"), Chars("#"), Chars("#x"),
     Chars("## U"), Chars("### V"), Chars("text"), <<>>}

HeadingDocs ==
    {Join(ls, NL) : ls \in SeqsOf(HeadingLinePool, 1, MaxHeadingLines)}

InitHeadings ==
    /\ op = "init" /\ arg \in HeadingDocs
    /\ ret = Idle /\ result = Idle /\ converter = Idle /\ doc = Idle
    /\ body = Idle /\ branch = "init" /\ crawler = Idle /\ call = Idle

\* processor._fix_heading_levels(content) (lines 299-337)
FixHeadings ==
    /\ op = "init"
    /\ op' = "fix_heading_levels"
    /\ ret' = FixHeadingLevels(arg)
    /\ UNCHANGED <<arg, result, doc, body, branch, converter, crawler, call>>

NextHeadings == FixHeadings

SpecHeadings == InitHeadings /\ [][NextHeadings]_vars

ArgLines == Split(arg, NL)

RetLines == Split(ret, NL)

\* The indices of the lines of the argument that start with a single "#".
LevelOneLines == {i \in 1..Len(ArgLines) : IsLevelOne(ArgLines[i])}

\* C6: the first line starting with a single "#" is returned unchanged,
\* every later such line is returned with one more "#" in front, and every
\* other line (deeper heading or no heading) is returned unchanged.
C6_FirstKeptLaterDemoted ==
    op = "fix_heading_levels" =>
      /\ Len(RetLines) = Len(ArgLines)
      /\ \A i \in 1..Len(ArgLines) :
            RetLines[i] = IF i \in LevelOneLines /\ i # Min(LevelOneLines)
                          THEN <<"#">> \o ArgLines[i]
                          ELSE ArgLines[i]

\* The first heading line of the argument is a title line ("# " and text).
FirstHeadingIsTitle ==
    LET hs == {i \in 1..Len(ArgLines) : HeadingLevel(ArgLines[i]) > 0} IN
    hs # {} /\ StartsWith(ArgLines[Min(hs)], <<"#", " ">>)

\* C7: when the first heading of the argument is the title, one call turns
\* every level-2 heading line after it ("## X") into "### X".
C7_LevelTwoDemoted ==
    (op = "fix_heading_levels" /\ FirstHeadingIsTitle) =>
      /\ Len(RetLines) = Len(ArgLines)
      /\ \A i \in 1..Len(ArgLines) :
            HeadingLevel(ArgLines[i]) = 2 => RetLines[i] = <<"#">> \o ArgLines[i]

(***************************************************************************)
(* _fix_links called on its own (specification SpecLinks)                  *)
(***************************************************************************)

\* The longest argument, in pieces of LinkPiecePool.
MaxLinkPieces == 4

\* Pieces of markdown text around a link.
LinkPiecePool ==
    {Chars("[X]"), Chars("(u)"), Chars("Y"), Chars(" "), Chars(")"), <<NL>>,
     Chars("[Z](v)")}

LinkTexts == {Concat(ps) : ps \in SeqsOf(LinkPiecePool, 1, MaxLinkPieces)}

InitLinks ==
    /\ op = "init" /\ arg \in LinkTexts
    /\ ret = Idle /\ result = Idle /\ converter = Idle /\ doc = Idle
    /\ body = Idle /\ branch = "init" /\ crawler = Idle /\ call = Idle

\* processor._fix_links(content) (lines 354-370)
FixLinksCall ==
    /\ op = "init"
    /\ op' = "fix_links"
    /\ ret' = FixLinks(arg)
    /\ UNCHANGED <<arg, result, doc, body, branch, converter, crawler, call>>

NextLinks == FixLinksCall

SpecLinks == InitLinks /\ [][NextLinks]_vars

\* The positions in s at which a link "[text](url)" ends (its closing ")")
\* with the next character neither whitespace nor ")".
UnspacedLinkEnds(s) ==
    {k \in 1..(Len(s) - 1) :
        \E p \in 1..k : \E j \in p..k :
            /\ s[p] = "[" /\ s[j] = "]" /\ j + 1 < k /\ s[j + 1] = "("
            /\ s[k] = ")"
            /\ \A i \in (p + 1)..(j - 1) : s[i] \notin {"[", "]", NL}
            /\ \A i \in (j + 2)..(k - 1) : s[i] \notin {"(", ")", NL}
            /\ s[k + 1] \notin (Whitespace \cup {")"})}

\* s with one space inserted after each position of ks.
RECURSIVE SpaceAfter(_, _, _)
SpaceAfter(s, ks, i) ==
    IF i > Len(s) THEN <<>>
    ELSE <<s[i]>> \o (IF i \in ks THEN <<" ">> ELSE <<>>) \o SpaceAfter(s, ks, i + 1)

\* C8: _fix_links returns its argument with exactly one space inserted
\* after every link that is directly followed by a character other than
\* whitespace and ")" ("[X](u)Y" becomes "[X](u) Y"), and returns an
\* argument whose links are all followed by whitespace unchanged.
C8_SpaceAfterLink ==
    op = "fix_links" => ret = SpaceAfter(arg, UnspacedLinkEnds(arg), 1)

(***************************************************************************)
(* _improve_tables called on its own (specification SpecTables)            *)
(***************************************************************************)

\* The longest argument, in lines.
MaxTableLines == 4

\* Lines of a markdown document: table rows with and without padding, a
\* separator row without and one with spaces, a row whose first cell is
\* empty, a text line, an empty line.
TableLinePool ==
    {Chars("|a|b|"), Chars("|-|-|"), Chars("| - |:-|"), Chars("| c|d |"),
     Chars("||d|"), Chars("x"), <<>>}

\* Documents whose lines all end with a line break.
TableDocs ==
    {Join(ls, NL) \o <<NL>> : ls \in SeqsOf(TableLinePool, 1, MaxTableLines)}

InitTables ==
    /\ op = "init" /\ arg \in TableDocs
    /\ ret = Idle /\ result = Idle /\ converter = Idle /\ doc = Idle
    /\ body = Idle /\ branch = "init" /\ crawler = Idle /\ call = Idle

\* processor._improve_tables(content) (lines 249-297)
ImproveTablesCall ==
    /\ op = "init"
    /\ op' = "improve_tables"
    /\ ret' = ImproveTables(arg)
    /\ UNCHANGED <<arg, result, doc, body, branch, converter, crawler, call>>

NextTables == ImproveTablesCall

SpecTables == InitTables /\ [][NextTables]_vars

\* The lines of a document that ends with a line break.
Rows(s) == Split(SubSeq(s, 1, Len(s) - 1), NL)

\* The argument is one table block: a header row, a separator row and one
\* or more data rows, and nothing else.
IsTableBlock(s) ==
    LET rows == Rows(s) IN
    /\ Len(rows) >= 3
    /\ \A i \in 1..Len(rows) : IsTableRow(rows[i])
    /\ \A i \in 2..(Len(rows[2]) - 1) : rows[2][i] \in {"-", ":", "|", " "}
    /\ \A i \in 1..Len(rows) : i # 2 => \E k \in 1..Len(rows[i]) : rows[i][k] \notin {"-", ":", "|", " "}

\* A row rewritten as "| cell | cell | ... |", each cell trimmed: the cells
\* are what lies between consecutive "|" of the row.
Realigned(row) ==
    <<"|", " ">>
    \o Join(StripCells(Split(SubSeq(row, 2, Len(row) - 1), "|")), <<" ", "|", " ">>)
    \o <<" ", "|">>

\* C9: _improve_tables returns a table block with as many rows as it was
\* given, the header row and every data row rewritten as
\* "| cell | cell | ... |" with trimmed cells and the same number of cells.
C9_RowsRealigned ==
    (op = "improve_tables" /\ IsTableBlock(arg)) =>
      /\ ret # <<>> /\ ret[Len(ret)] = NL
      /\ Len(Rows(ret)) = Len(Rows(arg))
      /\ \A i \in 1..Len(Rows(arg)) :
            i # 2 => Rows(ret)[i] = Realigned(Rows(arg)[i])

(***************************************************************************)
(* RobustCrawler (specification SpecCrawler)                               *)
(***************************************************************************)

\* urlparse raises ValueError ("Invalid IPv6 URL") when the authority has
\* one of the brackets "[" and "]" and not the other.
UrlParseRaises(url) ==
    LET netloc == UrlParse(url).netloc IN
    Contains(netloc, <<"[">>) # Contains(netloc, <<"]">>)

\* An exception leaving a call.
Raised(e) == <<"raise", e>>

\* _extract_page_id as a call: its return value, or the exception of urlparse.
ExtractPageIdOutcome(url) ==
    IF UrlParseRaises(url) THEN Raised("ValueError") ELSE ExtractPageId(url)

\* The client left by __init__ (lines 32-33) or by crawl (lines 55-59),
\* named by the URL it was configured with; None without credentials.
SetupConfluenceClient(url, credentials) ==
    IF Truthy(url) /\ credentials THEN url ELSE None

\* The page id of line 64: the configured one or the one found in the URL.
PageIdFor(page_id, url) ==
    IF Truthy(page_id) THEN page_id ELSE ExtractPageIdOutcome(url)

\* ApiAttempt with an error of the wiki API leaving crawl.
ApiAttemptErrorRaises(client, page_id, api) ==
    IF client = None THEN "fallback"
    ELSE IF page_id = Raised("ValueError") \/ ~Truthy(page_id) THEN "fallback"
    ELSE IF api = "page" THEN "returned"
    ELSE "raised"

\* The try block of lines 61-72: "returned" when the API gave the page,
\* "fallback" when there is no client, no page id, or an exception.
ApiAttempt(client, page_id, api) ==
    IF client = None THEN "fallback"
    ELSE IF page_id = Raised("ValueError") \/ ~Truthy(page_id) THEN "fallback"
    ELSE IF api = "page" THEN "returned"
    ELSE "fallback"

\* The API is called (line 68) when there is a client and a page id.
ApiCalled(client, page_id) ==
    client # None /\ page_id # Raised("ValueError") /\ Truthy(page_id)

\* _extract_with_beautifulsoup (lines 85-90) for markup without script,
\* style, nav, header, footer, article and main-content elements.
ExtractWithBeautifulSoup(html) == Join(StrippedNodes(TextNodes(html)), <<NL>>)

\* The markup served for a page.
PageHtml == Chars("<p>hi</p><p>yo</p>")

\* Outcomes of confluence.get_page_by_id and of the lookup of line 69: the
\* page, a reply without the body key (KeyError), an error of the API.
ApiOutcomes == {"page", "KeyError", "ApiError"}

\* Outcomes of AsyncWebCrawler.arun: a page or an exception.
FetchOutcomes == {"html", "FetchError"}

Base == Chars("https://h.io")

PathPool ==
    {<<>>, Chars("/wiki/spaces/S/pages/123456"), Chars("/pages/abc/pages/42"),
     Chars("/l/cp/ru5nUbGr"), Chars("/cp/x/l"), Chars("/some/page"),
     Chars("/display/S/T"), Chars("/pages/x")}

QueryPool ==
    {<<>>, Chars("?pageId=123456"), Chars("?pageId=a%2Fb+c"),
     Chars("?pageId=&pageId=5"), Chars("?x=1&pageId=7"), Chars("?pageId"),
     Chars("?page%49d=9&pageId=8"), Chars("?pageId=1#pageId=2")}

\* The URLs crawled: every path with every query, and one URL urlparse rejects.
CrawlUrls ==
    {Base \o path \o query : path \in PathPool, query \in QueryPool}
    \cup {Chars("https://[h/pages/42")}

\* args.page_id
PageIdPool == {None, Chars("77")}

InitCrawler ==
    /\ op = "init" /\ arg \in CrawlUrls
    /\ \E url \in {None, arg, Base}, page_id \in PageIdPool, credentials \in BOOLEAN :
          crawler = [url |-> url, page_id |-> page_id, credentials |-> credentials,
                     confluence |-> SetupConfluenceClient(url, credentials)]
    /\ call = Idle /\ ret = Idle /\ result = Idle /\ converter = Idle
    /\ doc = Idle /\ body = Idle /\ branch = "init"

\* crawler._extract_page_id(url) (lines 96-141)
ExtractPageIdCall ==
    /\ op = "init"
    /\ op' = "extract_page_id"
    /\ ret' = ExtractPageIdOutcome(arg)
    /\ UNCHANGED <<arg, result, doc, body, branch, converter, crawler, call>>

\* The body of crawl(url) (lines 53-83) on the instance as it is: the
\* instance and the record of the call afterwards, and what is returned.
CrawlBody(url) ==
    \E api \in ApiOutcomes, fetch \in FetchOutcomes :
        LET client  == IF url # crawler.url /\ crawler.confluence = None
                       THEN SetupConfluenceClient(url, crawler.credentials)
                       ELSE crawler.confluence
            page_id == IF client = None THEN None ELSE PageIdFor(crawler.page_id, url)
            attempt == ApiAttempt(client, page_id, api)
            called  == ApiCalled(client, page_id)
            fetched == attempt = "fallback"
        IN  /\ crawler' = [crawler EXCEPT !.url = url, !.confluence = client]
            /\ call' = [api_called |-> called,
                        api        |-> IF called THEN api ELSE "none",
                        page_id    |-> IF called THEN page_id ELSE None,
                        fetched    |-> fetched,
                        fetch      |-> IF fetched THEN fetch ELSE "none"]
            /\ ret' = IF attempt = "returned"
                      THEN [content |-> Html2Text(PageHtml),
                            source |-> "confluence_api", url |-> url]
                      ELSE IF attempt = "raised" THEN Raised(api)
                      ELSE IF fetch = "html"
                      THEN [content |-> ExtractWithBeautifulSoup(PageHtml),
                            source |-> "html_fallback", url |-> url]
                      ELSE Raised(fetch)

\* await crawler.crawl(url) (lines 53-83)
Crawl ==
    /\ op = "init"
    /\ op' = "crawl"
    /\ CrawlBody(arg)
    /\ UNCHANGED <<arg, result, doc, body, branch, converter>>

NextCrawler == ExtractPageIdCall \/ Crawl

SpecCrawler == InitCrawler /\ [][NextCrawler]_vars

(***************************************************************************)
(* Properties of page id resolution and of the fallback                    *)
(***************************************************************************)

\* The name=value pieces of the query string of url.
QueryPieces(url) == Split(UrlParse(url).query, "&")

\* Percent- and plus-decoding of a name or a value of the query string.
Decoded(s) == Unquote(PlusToSpace(s))

\* The pieces whose decoded name is pageId and whose value is not empty.
PageIdPieces(url) ==
    {i \in 1..Len(QueryPieces(url)) :
        LET nv == QueryPieces(url)[i]
            e  == FindChar(nv, "=", 1)
        IN  e > 0 /\ e < Len(nv) /\ Decoded(SubSeq(nv, 1, e - 1)) = Chars("pageId")}

\* The value of piece i as written in the URL.
RawValue(url, i) ==
    LET nv == QueryPieces(url)[i] IN SubSeq(nv, FindChar(nv, "=", 1) + 1, Len(nv))

\* C3 (as stated): for a URL whose query string has a non-empty pageId
\* parameter, _extract_page_id returns the value of a pageId parameter
\* exactly as it is written in the URL.
C3_QueryValueVerbatim ==
    LET written == {i \in PageIdPieces(arg) :
                      StartsWith(QueryPieces(arg)[i], Chars("pageId="))} IN
    (op = "extract_page_id" /\ written # {}) =>
        \E i \in written : ret = RawValue(arg, i)

\* C3 (amended): for a URL whose query string has a parameter whose decoded
\* name is pageId and whose value is not empty, _extract_page_id returns the
\* percent- and plus-decoded value of the first such parameter, whatever the
\* path of the URL holds.
C3_QueryValueDecoded ==
    (op = "extract_page_id" /\ PageIdPieces(arg) # {}) =>
        ret = Decoded(RawValue(arg, Min(PageIdPieces(arg))))

\* The query parameter pageId=a%2Fb+c wins over a pages/<digits> segment and
\* comes back decoded.
C3_Witness ==
    /\ op = "extract_page_id"
    /\ arg = Base \o Chars("/wiki/spaces/S/pages/123456?pageId=a%2Fb+c")
    /\ ret = Chars("a/b c")

\* urlparse accepts the URL and none of the three recognizers finds a page id.
NoRecognizerMatches(url) ==
    /\ ~UrlParseRaises(url)
    /\ PageIdPieces(url) = {}
    /\ PagesSegment(Split(UrlParse(url).path, "/")) = None
    /\ ShortLink(Split(UrlParse(url).path, "/")) = None

TitleHtmlPool ==
    {None, <<>>,
     Chars("<title>Doc</title><h1>x</h1>"),
     Chars("<title> </title><h1>Real</h1>"),
     Chars("<meta property=\"og:title\" content=\"OG\"><h1>x</h1>"),
     Chars("<h1>Head</h1><h2>Sub</h2>"),
     Chars("<h1> </h1><h2>Sub</h2>"),
     Chars("<h3>Third</h3><h2>Second</h2>"),
     Chars("<p>no</p>")}

\* Values of the url field: missing, a page below a directory, index files
\* at the root and below it, the root, a last segment of separators only.
TitleUrlPool ==
    {None,
     Chars("https://docs.example.com/guide/getting-started"),
     Chars("https://h.io/index.html"),
     Chars("https://h.io/index.php"),
     Chars("https://h.io/a/index.php"),
     Chars("https://h.io/"),
     Chars("https://h.io/docs/-_")}

TitleResults ==
    ResultsOver({None}, {None}, {None}, TitleHtmlPool,
                TitlePool, TitleUrlPool, {None}, {None})

InitTitle == InitOver(TitleResults)

\* processor._extract_title(result) (lines 207-247)
ExtractTitleCall ==
    /\ op = "init"
    /\ op' = "extract_title"
    /\ ret' = ExtractTitle(result, converter)
    /\ UNCHANGED <<arg, result, doc, body, branch, converter, crawler, call>>

NextTitle == ExtractTitleCall

SpecTitle == InitTitle /\ [][NextTitle]_vars

\* What a source of the title produces: the element's string stripped, and
\* the empty string when the element (or the markup, or BeautifulSoup) is
\* missing.
Produced(html, conv, open, close) ==
    IF ~Truthy(html) \/ ~conv.bs4 \/ ElementString(html, open, close) = None THEN <<>>
    ELSE Strip(ElementString(html, open, close), Whitespace)

\* The sources of the title in their order.
TitleSources(res, conv) ==
    << GetOr(res.title, <<>>),
       Produced(res.html, conv, Chars("<title>"), Chars("</title>")),
       Produced(res.html, conv, Chars("<meta property=\"og:title\" content=\""), Chars("\"")),
       Produced(res.html, conv, Chars("<h1>"), Chars("</h1>")),
       IF ~Truthy(res.html) \/ ~conv.bs4 \/ FirstOfTwo(res.html, "h2", "h3") = None THEN <<>>
       ELSE Strip(FirstOfTwo(res.html, "h2", "h3"), Whitespace),
       TitleFromUrl(GetOr(res.url, <<>>)) >>

\* C11: _extract_title returns what the first source with a non-empty
\* result produced, the sources taken in the order title field, <title>,
\* og:title, first <h1>, first <h2>/<h3>, URL; a non-empty title field
\* always wins, and without title and markup the URL
\* https://docs.example.com/guide/getting-started gives "Getting Started".
C11_FirstNonEmptySource ==
    op = "extract_title" =>
      LET srcs == TitleSources(arg, converter)
          ne   == {i \in 1..Len(srcs) : srcs[i] # <<>>}
      IN  /\ ne # {}
          /\ ret = srcs[Min(ne)]
          /\ (~Truthy(arg.title) /\ ~Truthy(arg.html)
              /\ arg.url = Chars("https://docs.example.com/guide/getting-started"))
                => ret = Chars("Getting Started")

(***************************************************************************)
(* Classification of a URL as wiki-style (specification SpecClassify)      *)
(***************************************************************************)

\* url.lower()
LowerStr(s) == [i \in 1..Len(s) |-> Lower(s[i])]

\* The rule of diagnostic_test.py line 82.
CliDetection(url) ==
    \/ Contains(LowerStr(url), Chars("confluence"))
    \/ Contains(LowerStr(url), Chars("atlassian.net"))

\* The names an instance of Crawler answers to: the attributes set by
\* __init__ and _setup_crawler and the methods of the class.
CrawlerAttributes ==
    {"args", "timeout", "depth", "username", "password", "is_confluence",
     "space_key", "page_id", "render_js", "wait_time", "crawler_options",
     "_setup_crawler", "crawl", "_process_crawl_result",
     "_enhance_content_extraction", "extract_domain"}

\* A value returned by a call.
ReturnValue(v) == <<"return", v>>

\* crawler.<name>(url) for a method taking the URL: looking up a name the
\* instance does not have raises AttributeError.
CallCrawlerMethod(name, url) ==
    IF name \notin CrawlerAttributes THEN Raised("AttributeError")
    ELSE ReturnValue(name)

ClassifyHosts ==
    {Chars("confluence.example.com"), Chars("example.atlassian.net"),
     Chars("example.com"), Chars("atlassian.net"),
     Chars("CONFLUENCE.example.com"), Chars("bigleagueinc.atlassian.net")}

ClassifyPaths ==
    {Chars("/display/SPACE/Page"), Chars("/wiki/spaces/SPACE/pages/123456"),
     Chars("/some/page"), Chars("/some/other/page"), Chars("/l/cp/ru5nUbGr"),
     Chars("/Atlassian.Net/x")}

ClassifyUrls ==
    {Chars("https://") \o host \o path : host \in ClassifyHosts, path \in ClassifyPaths}

\* Crawler(args) with args.confluence set or not (lines 36-55).
InitClassify ==
    /\ op = "init" /\ arg \in ClassifyUrls
    /\ \E confluence \in BOOLEAN : crawler = [is_confluence |-> confluence]
    /\ call = Idle /\ ret = Idle /\ result = Idle /\ converter = Idle
    /\ doc = Idle /\ body = Idle /\ branch = "init"

\* The loop body of test_confluence_detection (diagnostic_test.py lines
\* 77-89): the crawler's classifier is called, then the CLI rule evaluated.
IsConfluenceUrlCall ==
    /\ op = "init"
    /\ op' = "is_confluence_url"
    /\ ret' = CallCrawlerMethod("is_confluence_url", arg)
    /\ call' = [cli_detection |-> IF ret'[1] = "return" THEN CliDetection(arg) ELSE FALSE,
                compared      |-> ret'[1] = "return"]
    /\ UNCHANGED <<arg, result, doc, body, branch, converter, crawler>>

NextClassify == IsConfluenceUrlCall

SpecClassify == InitClassify /\ [][NextClassify]_vars

\* C12: the crawler's classifier answers for every URL, and its answer is
\* the one of the CLI rule (the URL in lower case contains "confluence" or
\* "atlassian.net").
C12_ClassifiersAgree ==
    op = "is_confluence_url" =>
      /\ ret[1] = "return"
      /\ ret[2] = CliDetection(arg)

(***************************************************************************)
(* Crawler (crawler.py)                                                    *)
(***************************************************************************)

\* An attribute the fetcher's result does not have, a key a dictionary does
\* not have.
Missing == <<"Missing">>

\* dict.get(key): None for a missing key.
Get(v) == IF v = Missing THEN None ELSE v

\* soup.get_text(separator, strip=True) of a piece of markup
GetText(markup, separator) == Join(StrippedNodes(TextNodes(markup)), separator)

\* The selectors of line 211 in their order, each with the opening and the
\* closing tag of the element it selects.
Selectors ==
    << [open |-> Chars("<main>"), close |-> Chars("</main>")],
       [open |-> Chars("<article>"), close |-> Chars("</article>")],
       [open |-> Chars("<div class=\"content\">"), close |-> Chars("</div>")],
       [open |-> Chars("<div id=\"content\">"), close |-> Chars("</div>")],
       [open |-> Chars("<div class=\"main-content\">"), close |-> Chars("</div>")],
       [open |-> Chars("<div class=\"documentation\">"), close |-> Chars("</div>")],
       [open |-> Chars("<div class=\"docs-content\">"), close |-> Chars("</div>")] >>

\* Strategy 1 (lines 211-216): the text of the first element of the first
\* selector that matches anything, None when no selector matches.  The loop
\* ends at the first selector that matches, whatever its text.
ContainerText(html) ==
    LET matching == {i \in 1..Len(Selectors) : IndexOf(html, Selectors[i].open, 1) # 0} IN
    IF matching = {} THEN None
    ELSE LET s == Selectors[Min(matching)] IN
         GetText(ElementString(html, s.open, s.close), <<>>)

\* soup.find_all('p'): what lies inside each <p> element from index i on.
RECURSIVE Paragraphs(_, _)
Paragraphs(html, i) ==
    LET a == IndexOf(html, Chars("<p>"), i)
        b == IF a = 0 THEN 0 ELSE IndexOf(html, Chars("</p>"), a + 3)
    IN  IF a = 0 \/ b = 0 THEN <<>>
        ELSE <<SubSeq(html, a + 3, b - 1)>> \o Paragraphs(html, b + 4)

RECURSIVE ParagraphTexts(_)
ParagraphTexts(ps) ==
    IF Len(ps) = 0 THEN <<>>
    ELSE <<GetText(ps[1], <<>>)>> \o ParagraphTexts(Tail(ps))

\* Strategy 2 (lines 219-223)
ParagraphText(html) ==
    IF Paragraphs(html, 1) = <<>> THEN None
    ELSE Join(ParagraphTexts(Paragraphs(html, 1)), <<NL, NL>>)

\* The content the three strategies of lines 207-228 arrive at.
EnhancedContent(html) ==
    IF Truthy(ContainerText(html)) THEN ContainerText(html)
    ELSE IF Truthy(ParagraphText(html)) THEN ParagraphText(html)
    ELSE GetText(html, <<NL>>)

\* The length a content must exceed to be accepted (line 231).
MinContentLength == 50

\* _enhance_content_extraction (lines 185-240) on the fetcher's result and
\* the dictionary made of it; bs4 tells whether BeautifulSoup is installed.
EnhanceContentExtraction(fetched, result_dict, bs4) ==
    IF Truthy(Get(fetched.html)) /\ bs4
       /\ Truthy(EnhancedContent(fetched.html))
       /\ Len(EnhancedContent(fetched.html)) > MinContentLength
    THEN [result_dict EXCEPT !.content = EnhancedContent(fetched.html),
                             !.extraction_method = Chars("enhanced")]
    ELSE result_dict

\* _process_crawl_result (lines 145-183).  A result with a to_dict method
\* gives the dictionary of its own attributes; otherwise the attributes of
\* line 163 are copied and the URL is added.  Of the keys only those a later
\* step reads are kept here.
ProcessCrawlResult(fetched, url) ==
    IF fetched.to_dict
    THEN [markdown |-> fetched.markdown, content |-> fetched.content,
          text |-> fetched.text, html |-> fetched.html, title |-> fetched.title,
          url |-> fetched.url, timestamp |-> Missing, extraction_method |-> Missing]
    ELSE [markdown |-> Missing, content |-> fetched.content,
          text |-> fetched.text, html |-> fetched.html, title |-> fetched.title,
          url |-> url, timestamp |-> Missing, extraction_method |-> Missing]

\* CrawlRaises with the except clause of lines 141-143 swallowing the
\* exception.
CrawlRaisesNever(fetched) == FALSE

\* Crawler.crawl raises RuntimeError when the fetcher raises (lines 141-143).
CrawlRaises(fetched) == fetched.raises

\* Crawler.crawl (lines 92-143) for depth 1 when the fetcher returns: the
\* dictionary returned.
CrawlerCrawl(fetched, url, bs4) ==
    LET result_dict == ProcessCrawlResult(fetched, url) IN
    IF ~Truthy(Get(result_dict.content)) \/ result_dict.content = ErrorMarker
    THEN EnhanceContentExtraction(fetched, result_dict, bs4)
    ELSE result_dict

(***************************************************************************)
(* FileManager (file_manager.py)                                           *)
(***************************************************************************)

\* The characters removed by the pattern of line 127.
InvalidFilenameChars == {"\\", "/", "*", "?", ":", "\"", "<", ">", "|"}

\* The length names are cut to (line 130).
MaxFilenameLength == 100

\* name.replace(' ', '_') (line 124)
SpacesToUnderscores(name) == [i \in 1..Len(name) |-> IF name[i] = " " THEN "_" ELSE name[i]]

\* re.sub(r'[\\/*?:"<>|]', '', s) (line 127)
RemoveInvalid(s) == SelectSeq(s, LAMBDA c : c \notin InvalidFilenameChars)

\* s[:100]
Truncate(s, n) == SubSeq(s, 1, IF Len(s) < n THEN Len(s) ELSE n)

\* s.isspace()
IsSpace(s) == Len(s) > 0 /\ \A i \in 1..Len(s) : s[i] \in Whitespace

\* _sanitize_filename (lines 113-136)
SanitizeFilename(name) ==
    LET sanitized == RStrip(Truncate(RemoveInvalid(SpacesToUnderscores(name)),
                                     MaxFilenameLength), {"."})
    IN  IF sanitized = <<>> \/ IsSpace(sanitized) THEN Chars("unnamed") ELSE sanitized

\* _generate_filename (lines 94-111), now being the clock reading formatted
\* to the second.
GenerateFilename(title, now) ==
    SanitizeFilename(title) \o <<"_">> \o now \o Chars(".md")

\* The directory made by _create_output_dir (lines 64-93) without space key.
OutputDir(base_output_dir, domain) ==
    base_output_dir \o <<"/">> \o SanitizeFilename(domain)

\* The path save writes to (lines 46-52).
OutputPath(base_output_dir, domain, title, now) ==
    OutputDir(base_output_dir, domain) \o <<"/">> \o GenerateFilename(title, now)

\* The directory of cli.py line 42.
BaseOutputDir == Chars("./scraped_content")

(***************************************************************************)
(* async_main (cli.py): crawl, process, save (specification SpecMain)      *)
(***************************************************************************)

\* Markup whose paragraph text is longer than MinContentLength.
LongHtml == Chars("<p>This paragraph of the page is longer than fifty characters.</p>")

\* args.url
MainUrls == {Chars("https://h.io/get-started"), Chars("https://docs.h.io/")}

\* The URL a fetched result carries itself (after a redirect).
FinalUrl == Chars("https://h.io/final")

\* What AsyncWebCrawler.arun gives: a result object with some of the
\* attributes markdown, content, text, html, title, with or without a to_dict
\* method (which returns those attributes and the object's own url), or an
\* exception.
FetchedObjects(to_dicts, urls) ==
    [raises : {FALSE}, to_dict : to_dicts,
     markdown : {Missing, Chars("# Test Page\n\nThis is a test page.")},
     content : {Missing, Chars("plain"), ErrorMarker},
     text : {Missing, Chars("txt")},
     html : {Missing, Chars("<p>hi</p>"), LongHtml},
     title : {Missing, None, <<>>, Chars("Test Page")},
     url : urls]

FetchFailure ==
    [raises |-> TRUE, to_dict |-> FALSE, markdown |-> Missing, content |-> Missing,
     text |-> Missing, html |-> Missing, title |-> Missing, url |-> Missing]

Fetched ==
    FetchedObjects({FALSE}, {Missing})
    \cup FetchedObjects({TRUE}, {Missing, FinalUrl})
    \cup {FetchFailure}

\* The dictionary as ContentProcessor reads it: every access is
\* result.get(key), which gives None for a missing key.
ProcessView(d) == [k \in DOMAIN d |-> Get(d[k])]

\* The dictionary after process (lines 64-65 write the title into it).
AfterProcess(d, conv) ==
    IF TitleFilled(ProcessView(d), conv) = ProcessView(d) THEN d
    ELSE [d EXCEPT !.title = TitleFilled(ProcessView(d), conv).title]

\* Values of datetime.now().strftime("%Y%m%d-%H%M%S")
ClockPool == {Chars("20250305-040000")}

\* handle_exception(e); return 1 (cli.py lines 172-174)
Failed(step) == <<step, "handle_exception">>

InitMain ==
    /\ op = "init" /\ arg \in MainUrls /\ converter \in Converters
    /\ call = [log |-> <<>>, files |-> {}]
    /\ crawler = Idle /\ result = Idle /\ ret = Idle
    /\ doc = Idle /\ body = Idle /\ branch = "init"

\* result = await crawler.crawl(args.url) (cli.py line 155)
MainCrawl ==
    /\ op = "init"
    /\ \E fetched \in Fetched :
          /\ crawler' = fetched
          /\ IF CrawlRaises(fetched)
             THEN /\ op' = "exit"
                  /\ ret' = ReturnValue(1)
                  /\ call' = [call EXCEPT !.log = @ \o Failed("crawl")]
                  /\ UNCHANGED result
             ELSE /\ op' = "crawled"
                  /\ result' = CrawlerCrawl(fetched, arg, converter.bs4)
                  /\ call' = [call EXCEPT !.log = Append(@, "crawl")]
                  /\ UNCHANGED ret
    /\ UNCHANGED <<arg, doc, body, branch, converter>>

\* markdown_content = processor.process(result) (cli.py line 158)
MainProcess ==
    /\ op = "crawled"
    /\ op' = "processed"
    /\ branch' = SelectBranch(ProcessView(result))
    /\ body' = ProcessBody(ProcessView(result), converter)
    /\ result' = AfterProcess(result, converter)
    /\ doc' = PostProcessMarkdown(body', ProcessView(result'), converter)
    /\ call' = [call EXCEPT !.log = Append(@, "process")]
    /\ UNCHANGED <<arg, ret, converter, crawler>>

\* domain, title, file_manager.save(...) and return 0 (cli.py lines 160-170).
\* A title of None makes _sanitize_filename raise AttributeError; an error
\* of the file system makes save raise IOError.
MainSave ==
    /\ op = "processed"
    /\ op' = "exit"
    /\ LET domain == UrlParse(arg).netloc
           title  == IF result.title = Missing THEN Chars("unnamed_page") ELSE result.title
       IN  \E write \in {"ok", "OSError"}, now \in ClockPool :
              IF title = None \/ write = "OSError"
              THEN /\ ret' = ReturnValue(1)
                   /\ call' = [call EXCEPT !.log = @ \o Failed("save")]
              ELSE /\ ret' = ReturnValue(0)
                   /\ call' = [log   |-> Append(call.log, "save"),
                               files |-> call.files \cup
                                   {[path    |-> OutputPath(BaseOutputDir, domain, title, now),
                                     title   |-> title,
                                     content |-> doc]}]
    /\ UNCHANGED <<arg, result, doc, body, branch, converter, crawler>>

NextMain == MainCrawl \/ MainProcess \/ MainSave

SpecMain == InitMain /\ [][NextMain]_vars

\* C13: when the fetcher raises, crawl raises, process and save are not
\* invoked, no file is written and async_main returns 1; in every run
\* process comes right after a crawl that returned and save right after
\* process.
C13_FetchFailureStopsRun ==
    /\ (op # "init" /\ crawler.raises) =>
          /\ op = "exit"
          /\ call.log = <<"crawl", "handle_exception">>
          /\ call.files = {}
          /\ ret = ReturnValue(1)
    /\ \A i \in 1..Len(call.log) :
          /\ call.log[i] = "process" => (i = 2 /\ call.log[1] = "crawl" /\ ~crawler.raises)
          /\ call.log[i] = "save" => (i = 3 /\ call.log[2] = "process")
    /\ call.files # {} => call.log = <<"crawl", "process", "save">>

\* A run whose fetch failed and that ended with status 1.
C13_Witness ==
    /\ op = "exit"
    /\ crawler.raises
    /\ ret = ReturnValue(1)
    /\ call.log = <<"crawl", "handle_exception">>

(***************************************************************************)
(* The result dictionary across process (specification SpecDocument)       *)
(***************************************************************************)

\* C14 (as stated): after process every key of the dictionary holds the
\* value it held before the call.
C14_ResultUntouched ==
    op = "process" => result = arg

\* C14 (amended): process changes no key of the dictionary other than
\* title, and title only when it was missing or empty and html is not: it
\* then holds what extract_title_from_html returns for that html.
C14_OnlyTitleWritten ==
    op = "process" =>
      /\ \A k \in DOMAIN arg : k # "title" => result[k] = arg[k]
      /\ IF ~Truthy(arg.title) /\ Truthy(arg.html)
         THEN result.title = ExtractTitleFromHtml(arg.html, converter)
         ELSE result.title = arg.title

\* A call that wrote the title found in the markup into the dictionary.
C14_Witness ==
    /\ op = "process"
    /\ arg.title = None
    /\ arg.html = Chars("<title>Doc</title><h1>x</h1>")
    /\ converter.bs4
    /\ result.title = Chars("Doc")

(***************************************************************************)
(* Several crawl calls on one RobustCrawler (specification                 *)
(* SpecCrawlSequence)                                                      *)
(***************************************************************************)

\* URLs of two wiki sites and of a page without page id.
SequenceUrls ==
    {Chars("https://a.io/wiki/spaces/S/pages/1"),
     Chars("https://b.io/wiki/spaces/S/pages/2"),
     Chars("https://a.io/l/cp/tok"),
     Chars("https://b.io/some/page")}

\* RobustCrawler(args) without args.url: no client yet (lines 17-33).
InitSequence ==
    /\ op = "init" /\ arg = Idle
    /\ \E page_id \in PageIdPool, credentials \in BOOLEAN :
          crawler = [url |-> None, page_id |-> page_id, credentials |-> credentials,
                     confluence |-> None]
    /\ call = Idle /\ ret = Idle /\ result = Idle /\ converter = Idle
    /\ doc = Idle /\ body = Idle /\ branch = "init"

\* await crawler.crawl(url), the first call and every later one on the same
\* instance (lines 53-83).
CrawlUrl ==
    /\ \E url \in SequenceUrls :
          /\ arg' = url
          /\ CrawlBody(url)
    /\ op' = "crawl"
    /\ UNCHANGED <<result, doc, body, branch, converter>>

NextSequence == CrawlUrl

SpecCrawlSequence == InitSequence /\ [][NextSequence]_vars

\* C15: whatever was crawled before, the wiki client a crawl of url
\* consults is one configured with url, the one a new instance would
\* consult for it.
C15_ClientConfiguredWithUrl ==
    (op = "crawl" /\ call.api_called) =>
        crawler.confluence = SetupConfluenceClient(arg, crawler.credentials)

(***************************************************************************)
(* _fix_heading_levels applied to its own output (specification            *)
(* SpecHeadingsTwice)                                                      *)
(***************************************************************************)

\* processor._fix_heading_levels(processor._fix_heading_levels(content)):
\* the second call (lines 299-337), on the value the first one returned,
\* which doc keeps.
FixHeadingsAgain ==
    /\ op = "fix_heading_levels"
    /\ op' = "fix_heading_levels_again"
    /\ doc' = ret
    /\ ret' = FixHeadingLevels(ret)
    /\ UNCHANGED <<arg, result, body, branch, converter, crawler, call>>

NextHeadingsTwice == FixHeadings \/ FixHeadingsAgain

SpecHeadingsTwice == InitHeadings /\ [][NextHeadingsTwice]_vars

\* The indices of the lines the first call shifted (doc holds the value it
\* returned).
ShiftedLines ==
    {i \in 1..Len(ArgLines) : DocLines[i] = <<"#">> \o ArgLines[i]}

\* C16: the second call demotes by one further level every heading the
\* first call shifted.
C16_SecondCallDemotesAgain ==
    op = "fix_heading_levels_again" =>
      /\ Len(RetLines) = Len(DocLines)
      /\ \A i \in ShiftedLines : RetLines[i] = <<"#">> \o DocLines[i]

\* C17: when the fetched result carries a non-empty markdown value, the
\* dictionary Crawler.crawl returns holds that value under markdown, the
\* fetcher's title under title and the requested URL under url.
C17_MarkdownReturned ==
    (op = "crawled" /\ Truthy(Get(crawler.markdown))) =>
        /\ result.markdown = crawler.markdown
        /\ result.title = crawler.title
        /\ result.url = arg

(***************************************************************************)
(* _sanitize_filename called on its own (specification SpecSanitize)       *)
(***************************************************************************)

\* The longest short name, in characters.
MaxNameChars == 3

\* Characters of a name: a space, a tab, a letter, a period, a character
\* line 127 removes.
NameChars == {" ", "\t", "a", ".", "?"}

\* Names: every short one, and names around the length limit.
NamePool ==
    SeqsOf(NameChars, 0, MaxNameChars)
    \cup {[i \in 1..n |-> "a"] : n \in {MaxFilenameLength, MaxFilenameLength + 1}}
    \cup {[i \in 1..(MaxFilenameLength + 1) |-> IF i = MaxFilenameLength THEN "." ELSE "a"]}

InitSanitize ==
    /\ op = "init" /\ arg \in NamePool
    /\ ret = Idle /\ result = Idle /\ converter = Idle /\ doc = Idle
    /\ body = Idle /\ branch = "init" /\ crawler = Idle /\ call = Idle

\* file_manager._sanitize_filename(name) (lines 113-136)
SanitizeFilenameCall ==
    /\ op = "init"
    /\ op' = "sanitize_filename"
    /\ ret' = SanitizeFilename(arg)
    /\ UNCHANGED <<arg, result, doc, body, branch, converter, crawler, call>>

NextSanitize == SanitizeFilenameCall

SpecSanitize == InitSanitize /\ [][NextSanitize]_vars

\* C18: a name that is empty or consists only of spaces is sanitized to
\* exactly "unnamed".
C18_BlankNameUnnamed ==
    (op = "sanitize_filename" /\ \A i \in 1..Len(arg) : arg[i] = " ") =>
        ret = Chars("unnamed")

\* The branch and the body of process when neither markdown nor content is
\* taken: text, then html, then nothing.
AfterContent(res, conv) ==
    IF Truthy(res.text) THEN [branch |-> "text", body |-> res.text]
    ELSE IF Truthy(res.html)
    THEN [branch |-> "html",
          body |-> IF Truthy(HtmlToMarkdown(res.html, conv))
                   THEN HtmlToMarkdown(res.html, conv) ELSE NoContent]
    ELSE [branch |-> "none", body |-> NoContent]

\* The argument of process has no markdown, was not extracted by the
\* enhanced method and has the given content.
PlainContentIs(content) ==
    /\ op = "process"
    /\ ~Truthy(arg.markdown) /\ ~Enhanced(arg)
    /\ arg.content = content

\* C19: with markdown empty and extraction_method not enhanced, a content
\* equal to "No content could be extracted.", the string process returns on
\* exhaustion, is not selected as the body: selection continues with text
\* and then html.
C19_SentinelSkipped ==
    PlainContentIs(Chars("No content could be extracted.")) =>
        /\ branch = AfterContent(arg, converter).branch
        /\ body = AfterContent(arg, converter).body

\* C19, amended: the content that is skipped is the one equal to
\* "Error: No content could be extracted."; selection then continues with
\* text and then html.
C19_ErrorMarkerSkipped ==
    PlainContentIs(Chars("Error: No content could be extracted.")) =>
        /\ branch = AfterContent(arg, converter).branch
        /\ body = AfterContent(arg, converter).body

C19_Witness ==
    /\ PlainContentIs(Chars("Error: No content could be extracted."))
    /\ ~Truthy(arg.text) /\ Truthy(arg.html)
    /\ branch = "html" /\ Truthy(body) /\ body # NoContent

\* The positions of a segment "l" immediately followed by a segment "cp"
\* that has a segment after it.
ShortLinkPositions(path_parts) ==
    {i \in 1..(Len(path_parts) - 2) :
        path_parts[i] = Chars("l") /\ path_parts[i + 1] = Chars("cp")}

\* C20: with no pageId query parameter and no accepted pages segment,
\* _extract_page_id returns a short-link token only if the path has a
\* segment "l" immediately followed by a segment "cp", the value being the
\* segment right after that "cp"; a path in which "l" and "cp" are not
\* adjacent in that order gives not found.
C20_ShortLinkAdjacent ==
    LET path_parts == Split(UrlParse(arg).path, "/") IN
    (/\ op = "extract_page_id" /\ ~UrlParseRaises(arg)
     /\ PageIdPieces(arg) = {} /\ PagesSegment(path_parts) = None) =>
        IF ShortLinkPositions(path_parts) = {}
        THEN ret = None
        ELSE \E i \in ShortLinkPositions(path_parts) : ret = path_parts[i + 2]

\* The positions of a segment "pages" immediately followed by a segment made
\* only of decimal digits.
PagesPositions(path_parts) ==
    {i \in 1..(Len(path_parts) - 1) :
        path_parts[i] = Chars("pages") /\ IsDigit(path_parts[i + 1])}

\* C21: with no pageId query parameter, when some segment "pages" of the
\* path is immediately followed by a segment of decimal digits,
\* _extract_page_id returns such a digit segment, also when an earlier
\* "pages" is followed by something else; and the pages recognizer never
\* gives a segment that is not all digits.
C21_AnyPagesSegment ==
    LET path_parts == Split(UrlParse(arg).path, "/") IN
    (op = "extract_page_id" /\ ~UrlParseRaises(arg) /\ PageIdPieces(arg) = {}) =>
        /\ PagesPositions(path_parts) # {} =>
              \E i \in PagesPositions(path_parts) : ret = path_parts[i + 1]
        /\ PagesSegment(path_parts) # None => IsDigit(PagesSegment(path_parts))

\* The first segment "pages" of the path is immediately followed by a
\* segment made only of decimal digits.
FirstPagesHasDigits(path_parts) ==
    /\ InParts(path_parts, Chars("pages"))
    /\ IndexIn(path_parts, Chars("pages")) \in PagesPositions(path_parts)

\* C21, amended: with no pageId query parameter, when the first segment
\* "pages" of the path is immediately followed by a segment of decimal
\* digits, _extract_page_id returns that segment; when it is followed by
\* anything else, later "pages" segments are not looked at: without the
\* segments "l" and "cp" the answer is not found, and what is returned is
\* never a segment that follows "pages" without being all digits.
C21_FirstPagesSegment ==
    LET path_parts == Split(UrlParse(arg).path, "/") IN
    (op = "extract_page_id" /\ ~UrlParseRaises(arg) /\ PageIdPieces(arg) = {}) =>
        /\ FirstPagesHasDigits(path_parts) =>
              ret = path_parts[IndexIn(path_parts, Chars("pages")) + 1]
        /\ (/\ InParts(path_parts, Chars("pages"))
            /\ ~FirstPagesHasDigits(path_parts)
            /\ ~(InParts(path_parts, Chars("l")) /\ InParts(path_parts, Chars("cp"))))
              => ret = None

C21_Witness ==
    /\ op = "extract_page_id"
    /\ arg = Base \o Chars("/pages/abc/pages/42")
    /\ ret = None

\* The URL's path is a known index filename.
IsIndexPath(url) ==
    NonEmpty(Split(UrlParse(url).path, "/")) \in {<<Chars("index.html")>>, <<Chars("index.php")>>}

\* C22: without a title field and without a title in the markup, a URL
\* whose path is index.html or index.php gives "Home - {host}", as a URL
\* with an empty path does.
C22_IndexFileIsHome ==
    (/\ op = "extract_title" /\ ~Truthy(arg.title)
     /\ (~Truthy(arg.html) \/ ExtractTitleFromHtml(arg.html, converter) = <<>>)
     /\ arg.url # None /\ IsIndexPath(arg.url)) =>
        ret = Chars("Home - ") \o UrlParse(arg.url).netloc

(***************************************************************************)
(* _enhance_content_extraction called on its own (specification            *)
(* SpecEnhance)                                                            *)
(***************************************************************************)

\* The longest markup, in pieces of MarkupPiecePool.
MaxMarkupPieces == 3

\* Two texts longer than MinContentLength.
LongTextA == Chars("Article text that is clearly longer than fifty characters.")

LongTextP == Chars("Paragraph text that is also longer than fifty characters.")

\* Pieces of a page: a main element without text and one with a short text,
\* an article and a content division with a long text, a short and a long
\* paragraph.
MarkupPiecePool ==
    {Chars("<main> </main>"),
     Chars("<main>short</main>"),
     Chars("<article>") \o LongTextA \o Chars("</article>"),
     Chars("<div class=\"content\">in div</div>"),
     Chars("<p>para</p>"),
     Chars("<p>") \o LongTextP \o Chars("</p>")}

MarkupPool == {Concat(ps) : ps \in SeqsOf(MarkupPiecePool, 1, MaxMarkupPieces)}

\* The fetcher's result (without to_dict) whose content made crawl ask for
\* the enhanced extraction, with and without markup.
EnhanceInputs ==
    [raises : {FALSE}, to_dict : {FALSE}, markdown : {Missing},
     content : {Missing, ErrorMarker}, text : {Missing},
     html : MarkupPool \cup {Missing, <<>>}, title : {Missing}, url : {Missing}]

InitEnhance ==
    /\ op = "init" /\ arg = Chars("https://h.io/get-started")
    /\ crawler \in EnhanceInputs
    /\ converter \in Converters
    /\ result = ProcessCrawlResult(crawler, arg)
    /\ ret = Idle /\ call = Idle /\ doc = Idle /\ body = Idle /\ branch = "init"

\* result_dict = self._enhance_content_extraction(result, result_dict)
\* (lines 185-240)
EnhanceCall ==
    /\ op = "init"
    /\ op' = "enhance_content_extraction"
    /\ result' = EnhanceContentExtraction(crawler, result, converter.bs4)
    /\ UNCHANGED <<arg, ret, doc, body, branch, converter, crawler, call>>

NextEnhance == EnhanceCall

SpecEnhance == InitEnhance /\ [][NextEnhance]_vars

\* The extraction ran on markup with BeautifulSoup installed.
EnhanceRan ==
    op = "enhance_content_extraction" /\ converter.bs4 /\ Truthy(Get(crawler.html))

\* The text of the first element selector i matches in html.
SelectorText(html, i) ==
    GetText(ElementString(html, Selectors[i].open, Selectors[i].close), <<>>)

\* The selectors that match an element with a non-empty text.
TextSelectors(html) ==
    {i \in 1..Len(Selectors) :
        IndexOf(html, Selectors[i].open, 1) # 0 /\ SelectorText(html, i) # <<>>}

\* C23: the selectors are tried in their fixed order and the content taken
\* is the text of the first selector whose match has a non-empty text; a
\* selector matching an element with an empty text does not stop the later
\* ones from being tried.
C23_FirstNonEmptySelector ==
    (/\ EnhanceRan /\ TextSelectors(crawler.html) # {}
     /\ Len(SelectorText(crawler.html, Min(TextSelectors(crawler.html)))) > MinContentLength) =>
        /\ result.content = SelectorText(crawler.html, Min(TextSelectors(crawler.html)))
        /\ result.extraction_method = Chars("enhanced")

\* The texts of the three strategies in their order: container, paragraphs,
\* full page (the empty string for a strategy that finds nothing).
StrategyTexts(html) ==
    << GetOr(ContainerText(html), <<>>),
       GetOr(ParagraphText(html), <<>>),
       GetText(html, <<NL>>) >>

\* The strategies whose text is longer than MinContentLength.
Meaningful(html) ==
    {i \in 1..3 : Len(StrategyTexts(html)[i]) > MinContentLength}

\* C24: a text is accepted only if it is longer than 50 characters, and a
\* strategy whose text is not (empty, or 50 characters or fewer) hands over
\* to the next strategy in the order container, paragraphs, full page.
C24_ShortTextTriesNext ==
    EnhanceRan =>
      /\ result.extraction_method = Chars("enhanced")
            => Len(result.content) > MinContentLength
      /\ Meaningful(crawler.html) # {} =>
            /\ result.extraction_method = Chars("enhanced")
            /\ result.content = StrategyTexts(crawler.html)[Min(Meaningful(crawler.html))]

\* C25: the separator row of a matched table, its cells made of "-", ":"
\* and spaces only, is returned character for character, also when it
\* contains spaces as "| - |:-|" does (stated for an argument that is one
\* table block).
C25_SeparatorUnchanged ==
    (op = "improve_tables" /\ IsTableBlock(arg)) =>
      /\ Len(Rows(ret)) = Len(Rows(arg))
      /\ Rows(ret)[2] = Rows(arg)[2]

\* C26: every dictionary Crawler.crawl returns has the key url with the
\* requested URL as its value, whether the fetcher's own to_dict or the
\* attribute copy made the dictionary.
C26_UrlIsRequestedUrl ==
    op = "crawled" => result.url = arg

\* The argument holds a matched table: a row, a separator row and a row on
\* consecutive lines.
HasTable(s) ==
    \E j \in 1..Len(Split(s, NL)) : TableAt(Split(s, NL), j)

\* The lines of the argument that are table rows.
RowLines(s) == {i \in 1..Len(Split(s, NL)) : IsTableRow(Split(s, NL)[i])}

\* C27: _improve_tables changes nothing outside the rows of a matched
\* table: the result has as many lines as the argument, every line that is
\* not a table row is returned as it was, and every line that starts a row
\* in the argument still starts with "|".
C27_OutsideTableUntouched ==
    (op = "improve_tables" /\ HasTable(arg)) =>
      /\ Len(Split(ret, NL)) = Len(Split(arg, NL))
      /\ \A i \in 1..Len(Split(arg, NL)) :
            IF i \in RowLines(arg)
            THEN StartsWith(Split(ret, NL)[i], <<"|">>)
            ELSE Split(ret, NL)[i] = Split(arg, NL)[i]

\* The title async_main hands to save (cli.py line 162).
SaveTitle == IF result.title = Missing THEN Chars("unnamed_page") ELSE result.title

\* C28: after a crawl and a process that succeeded, the title handed to
\* save is a non-empty string, the one of the document's "# {title}"
\* heading, whatever the fetched title was; and a run that got as far as
\* process does not fail for want of a title.
C28_SaveTitleIsHeading ==
    /\ op = "processed" =>
          /\ SaveTitle # None /\ SaveTitle # <<>>
          /\ Split(doc, NL)[1] = <<"#", " ">> \o SaveTitle
    /\ (op = "exit" /\ Len(call.log) > 2 /\ call.log[2] = "process"
        /\ ret = ReturnValue(1)) => SaveTitle # None

\* C29: the field picked by the priority test is the only one evaluated:
\* when content is picked (under enhanced extraction or not) the body is
\* its conversion, and the failure sentinel when the conversion gives the
\* empty string, also when text or html hold usable content.
C29_NoFallThrough ==
    (op = "process" /\ branch \in {"enhanced", "content"}) =>
        body = IF ConvertToMarkdown(arg.content, converter) = <<>>
               THEN Chars("No content could be extracted.")
               ELSE ConvertToMarkdown(arg.content, converter)

\* Content picked, its conversion empty, a usable text at hand, and the
\* body is the sentinel.
C29_Witness ==
    /\ op = "process" /\ branch = "content"
    /\ arg.content = Chars("<p> </p>")
    /\ ConvertToMarkdown(arg.content, converter) = <<>>
    /\ Truthy(arg.text)
    /\ body = Chars("No content could be extracted.")

(***************************************************************************)
(* Several FileManager.save calls on one base directory (specification     *)
(* SpecSaves)                                                              *)
(***************************************************************************)

\* The number of save calls of a behaviour.
MaxSaves == 2

\* The seconds the clock runs through.
MaxClock == 1

\* datetime.now().strftime("%Y%m%d-%H%M%S") at second n of the minute: the
\* reading has the resolution of one second.
ClockReading(n) ==
    LET digits == Chars("0123456789") IN
    Chars("20250305-0400") \o <<digits[(n \div 10) + 1], digits[(n % 10) + 1]>>

SaveDomains == {Chars("h.io")}

SaveTitles == {Chars("Test Page"), Chars("Other")}

SaveContents == {Chars("# one"), Chars("# two")}

\* A FileManager on an empty base directory; call.now is the clock.
InitSaves ==
    /\ op = "init"
    /\ call = [now |-> 0, log |-> <<>>, files |-> {}]
    /\ arg = Idle /\ ret = Idle /\ result = Idle /\ converter = Idle
    /\ crawler = Idle /\ doc = Idle /\ body = Idle /\ branch = "init"

\* file_manager.save(content, domain, title) (lines 32-62): the file at the
\* path is created or truncated and written (open(path, 'w')), and the path
\* is returned; an error of the file system leaves as IOError.
Save ==
    /\ Len(call.log) < MaxSaves
    /\ op' = "save"
    /\ \E content \in SaveContents, domain \in SaveDomains, title \in SaveTitles,
          write \in {"ok", "OSError"} :
          LET output_path == OutputPath(BaseOutputDir, domain, title, ClockReading(call.now))
              saved       == [path |-> output_path, content |-> content]
          IN  /\ arg' = saved
              /\ IF write = "OSError"
                 THEN /\ ret' = Raised("IOError")
                      /\ call' = [call EXCEPT !.log = Append(@, [saved EXCEPT !.path = None])]
                 ELSE /\ ret' = output_path
                      /\ call' = [call EXCEPT
                                    !.log = Append(@, saved),
                                    !.files = {f \in @ : f.path # output_path} \cup {saved}]
    /\ UNCHANGED <<result, doc, body, branch, converter, crawler>>

\* A second passes.
Tick ==
    /\ call.now < MaxClock
    /\ op' = "tick"
    /\ call' = [call EXCEPT !.now = @ + 1]
    /\ UNCHANGED <<arg, ret, result, doc, body, branch, converter, crawler>>

NextSaves == Save \/ Tick

SpecSaves == InitSaves /\ [][NextSaves]_vars

\* C30: a later save never overwrites the file of an earlier one: the
\* saves that returned a path returned different paths, so every file
\* written is still there with the content it was written with.
C30_NoOverwrite ==
    /\ \A i, j \in 1..Len(call.log) :
          (i < j /\ call.log[i].path # None) => call.log[i].path # call.log[j].path
    /\ \A i \in 1..Len(call.log) :
          call.log[i].path # None => call.log[i] \in call.files

=============================================================================
